---- MODULE Spec2Model ----
(***************************************************************************)
(* State-machine model of qr_code_generator.py: spreadsheet ingestion,     *)
(* output-directory clearing, the thread-pool fan-out that renders one     *)
(* labelled QR image per row, the re-sort at the join, the two paginators  *)
(* (word-processor tables, PDF canvas), the save, the temporary-directory  *)
(* cleanup and the process exit status, with the SIGINT handler.           *)
(*                                                                         *)
(* PDF coordinates are exact rationals: every length is held in units of   *)
(* 1/(10*wide) point, so that usable_width / wide and qr_width * 1.2 are   *)
(* integers.  The source computes them in binary floating point; for wide  *)
(* in 1..10 no row boundary coincides with the bottom margin (that needs   *)
(* 13 | wide), so rounding cannot change the outcome of `y < margin`.      *)
(* Rounding errors of the coordinates themselves (of the order of 1e-13    *)
(* point) are not represented.                                             *)
(*                                                                         *)
(* Entries of the output directory are files, links or directories, the    *)
(* kinds the clearing loop deletes.                                        *)
(*                                                                         *)
(* The SIGINT handler is modelled as delivered at most once per run, and   *)
(* not while the temporary directory is being removed.                     *)
(***************************************************************************)
EXTENDS Integers, Sequences, FiniteSets, TLC

\* ---------------------------------------------------------------- bounds
MaxCells == 3        \* spreadsheet rows of the selected column (whole run)
MaxOld == 1          \* entries a previous run left in the output directory
MaxImages == 11      \* input rows of the layout-stage specification
MaxRenderFail == 1   \* rows failing rendering in the layout-stage specification
MaxDrawFail == 1     \* drawImage failures inside one generate_pdf call

\* ------------------------------------------------------ program constants
LETTER_WIDTH == 612      \* reportlab letter, points
LETTER_HEIGHT == 792
inch == 72
PoolLimit == 8           \* max_workers = min(8, len(valid_rows))
MinWide == 1             \* choices=range(1, 11)
MaxWide == 10
output_file == 0         \* output/qr_codes.<type>, as an entry of the output directory

CellValues == {"None", "txt"}
Types == {"docx", "pdf"}

Min(a, b) == IF a < b THEN a ELSE b

Range(s) == {s[j] : j \in 1..Len(s)}

\* ------------------------------------------------------------- ingestion
\* what a cell can hold: nothing (None), the empty string, the number 0 ("zero",
\* standing for the values that are not empty and that Python counts as false),
\* a non-empty text
IngestValues == {"None", "", "zero", "txt"}

\* `if cell_value:` keeps the cells Python counts as true
Truthy(v) == v \notin {"None", "", "zero"}

StartRow(header) == IF header THEN 2 ELSE 1

RECURSIVE CollectRows(_, _, _)
CollectRows(c, sr, row) ==
    IF row > Len(c) THEN <<>>
    ELSE (IF Truthy(c[row]) THEN << <<row - sr, c[row]>> >> ELSE <<>>)
         \o CollectRows(c, sr, row + 1)

ValidRows(c, header) == CollectRows(c, StartRow(header), StartRow(header))

\* the row_num of each (row_num, cell_value) pair
RowNums(vr) == {vr[j][1] : j \in 1..Len(vr)}

\* ------------------------------------------------------------ the sort
InsertSorted(k, s) ==
    SelectSeq(s, LAMBDA e : e < k) \o <<k>> \o SelectSeq(s, LAMBDA e : e >= k)

RECURSIVE SortedKeys(_)
SortedKeys(s) == IF s = <<>> THEN <<>> ELSE InsertSorted(Head(s), SortedKeys(Tail(s)))

\* mutation of SortResults: the keys in the order the dict yields them
UnsortedKeys(s) == s

\* [results[row_num] for row_num in sorted(results.keys())]
SortResults(s) == SortedKeys(s)

\* an enumeration of a set of numbers (os.listdir snapshot)
RECURSIVE Listing(_)
Listing(S) ==
    IF S = {} THEN <<>>
    ELSE LET m == CHOOSE e \in S : \A f \in S : e <= f IN <<m>> \o Listing(S \ {m})

\* ------------------------------------------------------------ the state
VARIABLES
    pc,            \* position of the main thread
    cells,         \* the selected column, cells[1] is spreadsheet row 1
    has_header,
    type,          \* args.type
    wide,          \* args.wide
    verbose,       \* args.verbose
    valid_rows,    \* the (row_num, cell_value) pairs, empty until collected
    outDir,        \* entries of the output directory
    previous,      \* the entries the output directory held when the run began
    listing,       \* entries of os.listdir(output_dir) still to delete
    tmp,           \* "none", "exists", "removed"
    tmpFiles,      \* row numbers r with temp_qr_<r>.png in the temporary directory
    task,          \* per row: "none", "pending", "running", "ok", "fail"
    collected,     \* rows whose future as_completed has yielded
    results,       \* keys of the results dict, in insertion order
    progress,      \* number of progress.advance calls
    all_temp_files,
    i,             \* next element of all_temp_files the layout loop takes
    current_row,
    tables,        \* docx: the tables added, each the sequence of its pictures
    x, y, items_in_row, page_count,
    placed,        \* pdf: the drawImage calls that succeeded
    drawFailed,    \* pdf: images whose drawImage raised
    warned,        \* a per-image warning was printed
    saved,         \* the save of this run completed
    success,       \* "Success!" was printed
    errors,        \* kinds of "Error:" messages printed
    fault,         \* the fatal failure of this run, "none" if none
    exitStatus,    \* -1 while running
    interruptedAt  \* pc at which SIGINT was delivered, "none" if never

config == <<cells, has_header, type, wide, verbose, previous>>
fanout == <<task, collected, results, progress, tmpFiles>>
docx == <<current_row, tables>>
cursor == <<x, y, items_in_row, page_count>>
pdf == <<x, y, items_in_row, page_count, placed, drawFailed, warned>>
outcome == <<saved, success, errors, fault>>
vars == <<pc, cells, has_header, type, wide, verbose, valid_rows, outDir, previous, listing, tmp, tmpFiles,
          task, collected, results, progress, all_temp_files, i, current_row, tables,
          x, y, items_in_row, page_count, placed, drawFailed, warned, saved, success,
          errors, fault, exitStatus, interruptedAt>>

Rows == RowNums(valid_rows)
Done == {"ok", "fail"}
Rendered == {r \in Rows : task[r] = "ok"}

RECURSIVE SeqsUpTo(_, _)
SeqsUpTo(S, n) ==
    IF n = 0 THEN {<<>>}
    ELSE SeqsUpTo(S, n - 1) \cup {Append(s, v) : s \in {t \in SeqsUpTo(S, n - 1) : Len(t) = n - 1}, v \in S}

Fresh ==
    /\ pc = "preflight"
    /\ valid_rows = <<>>
    /\ listing = <<>>
    /\ tmp = "none" /\ tmpFiles = {}
    /\ task = <<>>
    /\ collected = {} /\ results = <<>> /\ progress = 0
    /\ all_temp_files = <<>> /\ i = 1
    /\ current_row = <<>> /\ tables = <<>>
    /\ x = 0 /\ y = 0 /\ items_in_row = 0 /\ page_count = 0
    /\ placed = <<>> /\ drawFailed = {} /\ warned = FALSE
    /\ saved = FALSE /\ success = FALSE /\ errors = {} /\ fault = "none"
    /\ exitStatus = -1 /\ interruptedAt = "none"

Init ==
    /\ cells \in SeqsUpTo(CellValues, MaxCells)
    /\ has_header \in BOOLEAN
    /\ type \in Types
    /\ wide \in MinWide..Min(MaxWide, MaxCells + 1)
    /\ verbose \in BOOLEAN
    /\ outDir \in {0..(k - 1) : k \in 0..MaxOld}
    /\ previous = outDir
    /\ Fresh

\* ------------------------------------------------------------ pre-flight
\* mutation of Exit: the error is printed and the run goes on
ExitMissing(kind) ==
    /\ errors' = errors \cup {kind}
    /\ fault' = kind
    /\ pc' = "clear"
    /\ exitStatus' = exitStatus

\* exit() with no argument: SystemExit(None), status 0
Exit(kind) ==
    /\ errors' = errors \cup {kind}
    /\ fault' = kind
    /\ pc' = "terminated"
    /\ exitStatus' = 0

\* lines 419-430 and 468-478: invalid input file, no .xlsx found, column out of range
PreflightExit ==
    /\ pc = "preflight"
    /\ \E kind \in {"bad_input", "no_xlsx", "bad_column"} : Exit(kind)
    /\ UNCHANGED <<config, valid_rows, outDir, listing, tmp, fanout, all_temp_files, i, docx, pdf,
                   saved, success, interruptedAt>>

\* line 463: load_workbook raises; `except Exception` at the top level, exit(1)
PreflightCrash ==
    /\ pc = "preflight"
    /\ errors' = errors \cup {"unexpected"}
    /\ fault' = "bad_workbook"
    /\ pc' = "terminated"
    /\ exitStatus' = 1
    /\ UNCHANGED <<config, valid_rows, outDir, listing, tmp, fanout, all_temp_files, i, docx, pdf,
                   saved, success, interruptedAt>>

\* lines 532-543: no data in the selected column
PreflightNoData ==
    /\ pc = "preflight"
    /\ Len(ValidRows(cells, has_header)) = 0
    /\ Exit("no_data")
    /\ UNCHANGED <<config, valid_rows, outDir, listing, tmp, fanout, all_temp_files, i,
                   docx, pdf, saved, success, interruptedAt>>

\* every check passes: valid_rows is collected (532-538), then os.makedirs and
\* the os.listdir snapshot (598-603); no row is submitted yet
PreflightOk ==
    /\ pc = "preflight"
    /\ Len(ValidRows(cells, has_header)) > 0
    /\ valid_rows' = ValidRows(cells, has_header)
    /\ task' = [r \in RowNums(ValidRows(cells, has_header)) |-> "none"]
    /\ listing' = Listing(outDir)
    /\ pc' = "clear"
    /\ UNCHANGED <<config, outDir, tmp, collected, results, progress, tmpFiles,
                   all_temp_files, i, docx, pdf, outcome, exitStatus, interruptedAt>>

\* --------------------------------------------- clearing the output directory
DeleteEntry ==
    /\ pc = "clear"
    /\ listing # <<>>
    /\ outDir' = outDir \ {Head(listing)}
    /\ listing' = Tail(listing)
    /\ UNCHANGED <<pc, config, valid_rows, tmp, fanout, all_temp_files, i, docx, pdf, outcome,
                   exitStatus, interruptedAt>>

\* mutation of AfterFailedDelete: the for loop moves on to the next entry
SkipFailed(l) == Tail(l)

\* the entries still to delete after a deletion raised: the `while True` loop
\* has not reached its break, so the same entry is the next one tried
AfterFailedDelete(l) == l

\* the deletion raises: the user is told, and the loop waits on console.input
DeleteFails ==
    /\ pc = "clear"
    /\ listing # <<>>
    /\ listing' = AfterFailedDelete(listing)
    /\ pc' = "prompt"
    /\ UNCHANGED <<config, valid_rows, outDir, tmp, fanout, all_temp_files, i, docx, pdf,
                   outcome, exitStatus, interruptedAt>>

\* Enter: `while True` tries the same entry again
Retry ==
    /\ pc = "prompt"
    /\ pc' = "clear"
    /\ UNCHANGED <<config, valid_rows, outDir, listing, tmp, fanout, all_temp_files, i, docx, pdf,
                   outcome, exitStatus, interruptedAt>>

\* end of input at the prompt: console.input raises EOFError, which only the
\* top-level `except Exception` catches, exit(1)
PromptEof ==
    /\ pc = "prompt"
    /\ errors' = errors \cup {"unexpected"}
    /\ fault' = "prompt_eof"
    /\ pc' = "terminated"
    /\ exitStatus' = 1
    /\ UNCHANGED <<config, valid_rows, outDir, listing, tmp, fanout, all_temp_files, i, docx, pdf,
                   saved, success, interruptedAt>>

\* line 626: with tempfile.TemporaryDirectory() as tmpdirname
TempDir ==
    /\ pc = "clear"
    /\ listing = <<>>
    /\ tmp' = "exists"
    /\ pc' = "submit"
    /\ UNCHANGED <<config, valid_rows, outDir, listing, fanout, all_temp_files, i, docx, pdf,
                   outcome, exitStatus, interruptedAt>>

\* ---------------------------------------------------------------- fan-out
\* executor.submit for every row (675-678 / 740-743)
Submit ==
    /\ pc = "submit"
    /\ task' = [r \in Rows |-> "pending"]
    /\ pc' = "collect"
    /\ UNCHANGED <<config, valid_rows, outDir, listing, tmp, collected, results, progress, tmpFiles,
                   all_temp_files, i, docx, pdf, outcome, exitStatus, interruptedAt>>

\* the pool runs work items while the executor lives: during the as_completed
\* loop, and during shutdown(wait=True) when the with block is left by SystemExit
PoolAlive == pc \in {"collect", "shutdown"}

Running == {r \in Rows : task[r] = "running"}

\* a worker thread takes a queued work item
StartTask(r) ==
    /\ PoolAlive
    /\ task[r] = "pending"
    /\ Cardinality(Running) < Min(PoolLimit, Len(valid_rows))
    /\ task' = [task EXCEPT ![r] = "running"]
    /\ UNCHANGED <<pc, config, valid_rows, outDir, listing, tmp, collected, results, progress,
                   tmpFiles, all_temp_files, i, docx, pdf, outcome, exitStatus,
                   interruptedAt>>

\* the img_width, img_height of the argument tuple (669 / 734)
RequestedSize(t) == IF t = "docx" THEN <<1000, 1000>> ELSE <<1000, 1200>>

base_width == 1000
\* int(base_width * 1.2)
base_height == (base_width * 12) \div 10
\* int(base_height * 0.2)
text_height == (base_height * 2) \div 10
qr_size == base_width

\* the image generate_single_qr composes for a text: Image.new of base_width by
\* base_height, the caption within the top text_height rows, the QR symbol
\* resized to qr_size by qr_size and pasted with its top-left corner at
\* (0, text_height); rows are counted downwards from 0
LabeledImage(text, img_width, img_height) ==
    [width |-> base_width,
     height |-> base_height,
     caption |-> [top |-> 0, bottom |-> text_height],
     qr |-> [left |-> 0, right |-> qr_size,
             top |-> text_height, bottom |-> text_height + qr_size]]

\* generate_single_qr returns (row_num, temp_file): the image is saved (163)
RenderOk(r) ==
    /\ PoolAlive
    /\ task[r] = "running"
    /\ task' = [task EXCEPT ![r] = "ok"]
    /\ tmpFiles' = tmpFiles \cup {r}
    /\ UNCHANGED <<pc, config, valid_rows, outDir, listing, tmp, collected, results, progress,
                   all_temp_files, i, docx, pdf, outcome, exitStatus, interruptedAt>>

\* generate_single_qr catches the exception and returns (row_num, None) (170-173)
RenderFails(r) ==
    /\ PoolAlive
    /\ task[r] = "running"
    /\ task' = [task EXCEPT ![r] = "fail"]
    /\ UNCHANGED <<pc, config, valid_rows, outDir, listing, tmp, collected, results, progress,
                   tmpFiles, all_temp_files, i, docx, pdf, outcome, exitStatus,
                   interruptedAt>>

\* mutation of StoreResult: the `if temp_file` test is dropped
StoreAlways(res, r, st) == Append(res, r)

\* `if temp_file: results[row_num] = temp_file`
StoreResult(res, r, st) == IF st = "ok" THEN Append(res, r) ELSE res

\* `if temp_file: ... if not args.verbose: progress.advance(task)`
Advanced(n, st, verb) == IF st = "ok" /\ ~verb THEN n + 1 ELSE n

\* one iteration of `for future in as_completed(future_to_row)`
Collect(r) ==
    /\ pc = "collect"
    /\ task[r] \in Done
    /\ r \notin collected
    /\ collected' = collected \cup {r}
    /\ results' = StoreResult(results, r, task[r])
    /\ progress' = Advanced(progress, task[r], verbose)
    /\ UNCHANGED <<pc, config, valid_rows, outDir, listing, tmp, task, tmpFiles, all_temp_files, i,
                   docx, pdf, outcome, exitStatus, interruptedAt>>

\* mutation of JoinComplete: the loop is left at the first result
JoinEarly == collected # {}

\* as_completed is exhausted and the executor's __exit__ has joined the workers
JoinComplete == collected = Rows /\ \A r \in Rows : task[r] \in Done

\* lines 692 / 757: the sort, then the first statement of the layout
Join ==
    /\ pc = "collect"
    /\ JoinComplete
    /\ all_temp_files' = SortResults(results)
    /\ i' = 1
    /\ pc' = IF type = "docx" THEN "docx_loop" ELSE "pdf_init"
    /\ UNCHANGED <<config, valid_rows, outDir, listing, tmp, fanout, docx, pdf, outcome, exitStatus,
                   interruptedAt>>

\* ------------------------------------------------- word-processor paginator
\* mutation of RowFull: a row is flushed one image early
RowFullEarly(row, w) == Len(row) >= w - 1

\* `if len(current_row) == args.wide`
RowFull(row, w) == Len(row) = w

\* one iteration of `for temp_file in all_temp_files` (694-704)
DocxStep ==
    /\ pc = "docx_loop"
    /\ i <= Len(all_temp_files)
    /\ LET row == Append(current_row, all_temp_files[i]) IN
         IF RowFull(row, wide)
         THEN tables' = Append(tables, row) /\ current_row' = <<>>
         ELSE tables' = tables /\ current_row' = row
    /\ i' = i + 1
    /\ UNCHANGED <<pc, config, valid_rows, outDir, listing, tmp, fanout, all_temp_files, pdf, outcome,
                   exitStatus, interruptedAt>>

\* mutation of LayoutErrorTarget: the error is swallowed and the document saved
LayoutErrorIgnored == "docx_save"

\* `except Exception ... raise` (710-714), caught at 778 inside the with block
LayoutErrorTarget == "cleanup"

\* add_picture raises on the k+1st picture of the row being flushed
DocxPlaceFails ==
    /\ pc = "docx_loop"
    /\ i <= Len(all_temp_files)
    /\ LET row == Append(current_row, all_temp_files[i]) IN
         /\ RowFull(row, wide)
         /\ \E k \in 0..(Len(row) - 1) : tables' = Append(tables, SubSeq(row, 1, k))
         /\ current_row' = row
    /\ errors' = errors \cup {"layout"}
    /\ fault' = "docx_place"
    /\ pc' = LayoutErrorTarget
    /\ UNCHANGED <<config, valid_rows, outDir, listing, tmp, fanout, all_temp_files, i, pdf, saved,
                   success, exitStatus, interruptedAt>>

\* end of the loop reached: the save is the next statement
DocxLoopEnd ==
    /\ pc = "docx_loop"
    /\ i > Len(all_temp_files)
    /\ pc' = "docx_save"
    /\ UNCHANGED <<config, valid_rows, outDir, listing, tmp, fanout, all_temp_files, i, docx, pdf,
                   outcome, exitStatus, interruptedAt>>

\* doc.save(output_file) and the success message (707-708)
DocxSave ==
    /\ pc = "docx_save"
    /\ saved' = TRUE
    /\ outDir' = outDir \cup {output_file}
    /\ success' = TRUE
    /\ pc' = "cleanup"
    /\ UNCHANGED <<config, valid_rows, listing, tmp, fanout, all_temp_files, i, docx, pdf, errors,
                   fault, exitStatus, interruptedAt>>

\* doc.save raises
DocxSaveFails ==
    /\ pc = "docx_save"
    /\ errors' = errors \cup {"layout"}
    /\ fault' = "docx_save"
    /\ pc' = "cleanup"
    /\ UNCHANGED <<config, valid_rows, outDir, listing, tmp, fanout, all_temp_files, i, docx, pdf,
                   saved, success, exitStatus, interruptedAt>>

\* ------------------------------------------------------------ PDF paginator
\* lengths in units of 1/(10*wide) point
Unit(w) == 10 * w
Width(w) == LETTER_WIDTH * Unit(w)
Height(w) == LETTER_HEIGHT * Unit(w)
Margin(w) == inch * Unit(w)
UsableWidth(w) == Width(w) - 2 * Margin(w)
QrWidth(w) == UsableWidth(w) \div w
\* qr_width * 1.2
QrHeight(w) == (QrWidth(w) * 12) \div 10
TopY(w) == Height(w) - Margin(w) - QrHeight(w)

\* mutation of Advance: the row is ended one image late (`>` for `>=`)
AdvanceLate(cur, w) ==
    IF cur.items_in_row + 1 > w
    THEN [x |-> Margin(w), y |-> cur.y - QrHeight(w), items_in_row |-> 0,
          page_count |-> cur.page_count]
    ELSE [cur EXCEPT !.x = cur.x + QrWidth(w), !.items_in_row = cur.items_in_row + 1]

\* mutation of Advance: the `if y < margin` block is left out
AdvanceOnePage(cur, w) ==
    IF cur.items_in_row + 1 >= w
    THEN [x |-> Margin(w), y |-> cur.y - QrHeight(w), items_in_row |-> 0,
          page_count |-> cur.page_count]
    ELSE [cur EXCEPT !.x = cur.x + QrWidth(w), !.items_in_row = cur.items_in_row + 1]

\* the cursor update after a successful drawImage (253-272)
Advance(cur, w) ==
    IF cur.items_in_row + 1 >= w
    THEN IF cur.y - QrHeight(w) < Margin(w)
         THEN [x |-> Margin(w), y |-> TopY(w), items_in_row |-> 0,
               page_count |-> cur.page_count + 1]
         ELSE [x |-> Margin(w), y |-> cur.y - QrHeight(w), items_in_row |-> 0,
               page_count |-> cur.page_count]
    ELSE [cur EXCEPT !.x = cur.x + QrWidth(w), !.items_in_row = cur.items_in_row + 1]

Cursor == [x |-> x, y |-> y, items_in_row |-> items_in_row, page_count |-> page_count]

\* canvas.Canvas(...) and the starting position (221-241)
PdfInit ==
    /\ pc = "pdf_init"
    /\ x' = Margin(wide)
    /\ y' = TopY(wide)
    /\ items_in_row' = 0
    /\ page_count' = 1
    /\ pc' = "pdf_loop"
    /\ UNCHANGED <<config, valid_rows, outDir, listing, tmp, fanout, all_temp_files, i, docx, placed,
                   drawFailed, warned, outcome, exitStatus, interruptedAt>>

\* an exception outside the per-image try: generate_pdf returns False (286-289),
\* and the caller prints "Failed to generate PDF" (767-770)
PdfInitFails ==
    /\ pc = "pdf_init"
    /\ errors' = errors \cup {"pdf_failed"}
    /\ fault' = "pdf_init"
    /\ pc' = "cleanup"
    /\ UNCHANGED <<config, valid_rows, outDir, listing, tmp, fanout, all_temp_files, i, docx, pdf,
                   saved, success, exitStatus, interruptedAt>>

\* one iteration of `for temp_file in qr_files` whose drawImage succeeds
PdfDraw ==
    /\ pc = "pdf_loop"
    /\ i <= Len(all_temp_files)
    /\ placed' = Append(placed, [file |-> all_temp_files[i], page |-> page_count,
                                 x |-> x, y |-> y, slot |-> items_in_row])
    /\ LET next == Advance(Cursor, wide) IN
         /\ x' = next.x
         /\ y' = next.y
         /\ items_in_row' = next.items_in_row
         /\ page_count' = next.page_count
    /\ i' = i + 1
    /\ UNCHANGED <<pc, config, valid_rows, outDir, listing, tmp, fanout, all_temp_files, docx,
                   drawFailed, warned, outcome, exitStatus, interruptedAt>>

\* mutation of AfterDrawFailure: the slot of the failed image is used up
SlotConsumed(cur, w) == Advance(cur, w)

\* the cursor after a drawImage that raised: lines 253-272 are skipped
AfterDrawFailure(cur, w) == cur

\* one iteration whose drawImage raises: warning when verbose, `continue` (274-277)
PdfDrawFails ==
    /\ pc = "pdf_loop"
    /\ i <= Len(all_temp_files)
    /\ Cardinality(drawFailed) < MaxDrawFail
    /\ drawFailed' = drawFailed \cup {all_temp_files[i]}
    /\ warned' = (warned \/ verbose)
    /\ LET next == AfterDrawFailure(Cursor, wide) IN
         /\ x' = next.x
         /\ y' = next.y
         /\ items_in_row' = next.items_in_row
         /\ page_count' = next.page_count
    /\ i' = i + 1
    /\ UNCHANGED <<pc, config, valid_rows, outDir, listing, tmp, fanout, all_temp_files, docx,
                   placed, outcome, exitStatus, interruptedAt>>

PdfLoopEnd ==
    /\ pc = "pdf_loop"
    /\ i > Len(all_temp_files)
    /\ pc' = "pdf_save"
    /\ UNCHANGED <<config, valid_rows, outDir, listing, tmp, fanout, all_temp_files, i, docx, pdf,
                   outcome, exitStatus, interruptedAt>>

\* c.save(), return True, and the caller's success message (283-284, 763-766)
PdfSave ==
    /\ pc = "pdf_save"
    /\ saved' = TRUE
    /\ outDir' = outDir \cup {output_file}
    /\ success' = TRUE
    /\ pc' = "cleanup"
    /\ UNCHANGED <<config, valid_rows, listing, tmp, fanout, all_temp_files, i, docx, pdf, errors,
                   fault, exitStatus, interruptedAt>>

\* c.save() raises: generate_pdf returns False
PdfSaveFails ==
    /\ pc = "pdf_save"
    /\ errors' = errors \cup {"pdf_failed"}
    /\ fault' = "pdf_save"
    /\ pc' = "cleanup"
    /\ UNCHANGED <<config, valid_rows, outDir, listing, tmp, fanout, all_temp_files, i, docx, pdf,
                   saved, success, exitStatus, interruptedAt>>

\* ------------------------------------------------- leaving the with blocks
\* mutation of ExitTarget: the handler only prints, the run goes on
ExitIgnored(p) == p

\* mutation of ExitTarget: the process ends without unwinding the with blocks
ExitHard(p) == "terminated"

\* where exit(0), raised by signal_handler in the main thread at p, takes it:
\* SystemExit passes every `except Exception`; inside the executor's with block
\* __exit__ first joins the workers; inside the TemporaryDirectory block the
\* directory is removed; then the process ends
ExitTarget(p) ==
    IF p \in {"preflight", "clear", "prompt"} THEN "terminated"
    ELSE IF p = "collect" THEN "shutdown"
    ELSE "cleanup"

\* SIGINT (33-37)
signal_handler ==
    /\ pc \notin {"terminated", "cleanup", "shutdown"}
    /\ interruptedAt = "none"
    /\ interruptedAt' = pc
    /\ pc' = ExitTarget(pc)
    /\ exitStatus' = IF ExitTarget(pc) = "terminated" THEN 0 ELSE exitStatus
    /\ UNCHANGED <<config, valid_rows, outDir, listing, tmp, fanout, all_temp_files, i, docx, pdf,
                   outcome>>

\* ThreadPoolExecutor.__exit__ during the unwinding: shutdown(wait=True) returns
ShutdownDone ==
    /\ pc = "shutdown"
    /\ \A r \in Rows : task[r] \in Done
    /\ pc' = "cleanup"
    /\ UNCHANGED <<config, valid_rows, outDir, listing, tmp, fanout, all_temp_files, i, docx, pdf,
                   outcome, exitStatus, interruptedAt>>

\* TemporaryDirectory.__exit__, then the end of the script (or of the unwinding):
\* nothing sets a status on these paths, so the process ends with status 0
TmpCleanup ==
    /\ pc = "cleanup"
    /\ tmp' = "removed"
    /\ tmpFiles' = {}
    /\ pc' = "terminated"
    /\ exitStatus' = 0
    /\ UNCHANGED <<config, valid_rows, outDir, listing, task, collected, results, progress,
                   all_temp_files, i, docx, pdf, outcome, interruptedAt>>

Next ==
    \/ PreflightExit \/ PreflightCrash \/ PreflightNoData \/ PreflightOk
    \/ DeleteEntry \/ DeleteFails \/ Retry \/ PromptEof \/ TempDir
    \/ Submit
    \/ \E r \in Rows : StartTask(r)
    \/ \E r \in Rows : RenderOk(r)
    \/ \E r \in Rows : RenderFails(r)
    \/ \E r \in Rows : Collect(r)
    \/ Join
    \/ DocxStep \/ DocxPlaceFails \/ DocxLoopEnd \/ DocxSave \/ DocxSaveFails
    \/ PdfInit \/ PdfInitFails \/ PdfDraw \/ PdfDrawFails \/ PdfLoopEnd
    \/ PdfSave \/ PdfSaveFails
    \/ signal_handler \/ ShutdownDone \/ TmpCleanup

Spec == Init /\ [][Next]_vars

\* --------------------------------------- the layout stage on larger inputs
\* The state right after the join of a run over n rows, of which at most
\* MaxRenderFail failed rendering and the others completed in descending order.
\* The paginators never inspect a row number, so which rows failed is
\* immaterial to them: the failed rows are taken to be rows 1, 3, 5, ...
RECURSIVE Reverse(_)
Reverse(s) == IF s = <<>> THEN <<>> ELSE Append(Reverse(Tail(s)), Head(s))

InitLayout ==
    \E n \in 1..MaxImages :
    \E nf \in 0..MaxRenderFail :
    LET failed == {r \in 0..(n - 1) : r % 2 = 1 /\ r < 2 * nf} IN
        /\ cells = [j \in 1..n |-> "txt"]
        /\ has_header = FALSE
        /\ valid_rows = ValidRows(cells, has_header)
        /\ type \in Types
        /\ wide \in MinWide..MaxWide
        /\ verbose = FALSE
        /\ outDir = {}
        /\ previous = {}
        /\ listing = <<>>
        /\ tmp = "exists"
        /\ tmpFiles = (0..(n - 1)) \ failed
        /\ task = [r \in 0..(n - 1) |-> IF r \in failed THEN "fail" ELSE "ok"]
        /\ collected = 0..(n - 1)
        /\ results = Reverse(Listing((0..(n - 1)) \ failed))
        /\ progress = n - Cardinality(failed)
        /\ all_temp_files = SortResults(results)
        /\ i = 1
        /\ pc = IF type = "docx" THEN "docx_loop" ELSE "pdf_init"
        /\ current_row = <<>> /\ tables = <<>>
        /\ x = 0 /\ y = 0 /\ items_in_row = 0 /\ page_count = 0
        /\ placed = <<>> /\ drawFailed = {} /\ warned = FALSE
        /\ saved = FALSE /\ success = FALSE /\ errors = {} /\ fault = "none"
        /\ exitStatus = -1 /\ interruptedAt = "none"

NextLayout ==
    \/ DocxStep \/ DocxPlaceFails \/ DocxLoopEnd \/ DocxSave \/ DocxSaveFails
    \/ PdfInit \/ PdfInitFails \/ PdfDraw \/ PdfDrawFails \/ PdfLoopEnd
    \/ PdfSave \/ PdfSaveFails
    \/ TmpCleanup

SpecLayout == InitLayout /\ [][NextLayout]_vars

\* ------------------------------------- ingestion over every kind of cell
\* The run up to the collection of valid_rows, for columns holding any mix of
\* the cell values; the settings that ingestion does not read are fixed.
InitIngest ==
    /\ cells \in SeqsUpTo(IngestValues, MaxCells)
    /\ has_header \in BOOLEAN
    /\ type = "pdf"
    /\ wide = MinWide
    /\ verbose = FALSE
    /\ outDir = {}
    /\ previous = outDir
    /\ Fresh

NextIngest == PreflightNoData \/ PreflightOk

SpecIngest == InitIngest /\ [][NextIngest]_vars

\* ================================================================ claims
LayoutPcs == {"docx_loop", "docx_save", "pdf_init", "pdf_loop", "pdf_save"}
InLayout == pc \in LayoutPcs
NumRows == Cardinality(Rows)
NumFailed == Cardinality({r \in Rows : task[r] = "fail"})
Ceil(a, b) == (a + b - 1) \div b
IsAscending(s) == \A j \in 1..(Len(s) - 1) : s[j] < s[j + 1]

\* C1: word-processor path: the saved document holds exactly floor(N / wide)
\* tables, each with exactly `wide` pictures, taken in index order; the last
\* N mod wide images are in no table (they are left in current_row); with no
\* rendering failure N is the number of input rows.
C1_DocxFullRowsOnly ==
    (type = "docx" /\ saved) =>
        LET n == Len(all_temp_files) IN
        /\ (NumFailed = 0 => n = NumRows)
        /\ Len(tables) = n \div wide
        /\ \A t \in 1..Len(tables) :
             /\ Len(tables[t]) = wide
             /\ \A k \in 1..wide : tables[t][k] = all_temp_files[(t - 1) * wide + k]
        /\ current_row = SubSeq(all_temp_files, wide * (n \div wide) + 1, n)
        /\ Len(current_row) = n % wide

\* the 7-row, 3-column scenario: two tables, the seventh image in none
C1_Witness ==
    /\ type = "docx" /\ saved /\ wide = 3 /\ NumRows = 7 /\ NumFailed = 0
    /\ Len(tables) = 2 /\ current_row = <<6>>

\* ---- PDF grid
RowKey(p) == <<p.page, p.y>>
GridRows == {RowKey(placed[j]) : j \in 1..Len(placed)}
InGridRow(k) == {j \in 1..Len(placed) : RowKey(placed[j]) = k}
PdfLaidOut ==
    /\ type = "pdf"
    /\ pc \in {"pdf_save", "cleanup", "terminated"}
    /\ fault # "pdf_init"
    /\ interruptedAt = "none"

PdfGridShape ==
    /\ Cardinality(GridRows) = Ceil(Len(placed), wide)
    /\ \A k \in GridRows :
         /\ Cardinality(InGridRow(k)) <= wide
         /\ Cardinality({placed[j].x : j \in InGridRow(k)}) = Cardinality(InGridRow(k))
         /\ (k # RowKey(placed[Len(placed)]) => Cardinality(InGridRow(k)) = wide)

\* C2 as stated: generate_pdf places exactly N - F images, in ceil((N - F) / wide)
\* grid rows, every row but the last full.
C2_Original ==
    PdfLaidOut => (Len(placed) = NumRows - NumFailed /\ PdfGridShape)

\* C2 amended: generate_pdf places exactly N - F - D images, D the number of
\* images whose drawImage raised, in index order, in ceil((N - F - D) / wide)
\* grid rows in which every row but possibly the last holds exactly `wide`
\* images at pairwise distinct x; a final partial row is emitted.
C2_PdfPlacesAllDrawn ==
    PdfLaidOut =>
        /\ Len(placed) = NumRows - NumFailed - Cardinality(drawFailed)
        /\ [j \in 1..Len(placed) |-> placed[j].file]
             = SelectSeq(all_temp_files, LAMBDA f : f \notin drawFailed)
        /\ PdfGridShape

\* seven rows, three columns, 3 + 3 + 1
C2_Witness ==
    /\ PdfLaidOut /\ saved /\ wide = 3 /\ NumRows = 7 /\ NumFailed = 0 /\ drawFailed = {}
    /\ Len(placed) = 7 /\ Cardinality(GridRows) = 3
    /\ Cardinality(InGridRow(RowKey(placed[7]))) = 1

\* C3: whatever the completion order of the workers, the sequence handed to
\* the paginator is strictly ascending in row index and holds exactly the
\* successfully rendered rows, each once (so it is a function of the set of
\* rendered rows alone).
C3_SortedAtJoin ==
    (InLayout \/ all_temp_files # <<>>) =>
        /\ IsAscending(all_temp_files)
        /\ Range(all_temp_files) = Rendered
        /\ Len(all_temp_files) = Cardinality(Rendered)

\* results were collected out of index order, and the paginator got them sorted
C3_Witness ==
    /\ InLayout /\ Len(results) >= 2 /\ ~IsAscending(results)
    /\ IsAscending(all_temp_files) /\ Len(all_temp_files) = Len(results)

\* C4: join barrier: once the layout stage has been entered, or a table has
\* been added, an image drawn or the document saved, every submitted render
\* task has completed (successfully or not); none is pending or running.
LayoutStarted == InLayout \/ tables # <<>> \/ placed # <<>> \/ saved

C4_JoinBarrier ==
    LayoutStarted => \A r \in Rows : task[r] \in Done

\* a layout step was taken in a run with several tasks, one of which failed
C4_Witness ==
    /\ (tables # <<>> \/ placed # <<>>)
    /\ NumRows >= 2 /\ NumFailed >= 1
    /\ \A r \in Rows : task[r] \in Done

\* C5: a row whose rendering fails has no entry in the results and no image
\* in the output, every other row is rendered and collected, and the run is
\* not stopped: while results are being collected some step of the fan-out is
\* enabled, and the layout gets exactly the rows that succeeded.
FanoutStep ==
    \/ \E r \in Rows : StartTask(r) \/ RenderOk(r) \/ RenderFails(r) \/ Collect(r)
    \/ Join

C5_RowFailureIsolated ==
    /\ \A r \in collected : (r \in Range(results)) <=> (task[r] = "ok")
    /\ Range(results) \subseteq collected
    /\ (pc = "collect" => ENABLED FanoutStep)
    /\ LayoutStarted =>
         /\ collected = Rows
         /\ Range(all_temp_files) = Rows \ {r \in Rows : task[r] = "fail"}
         /\ \A t \in 1..Len(tables) : Range(tables[t]) \subseteq Rendered
         /\ \A j \in 1..Len(placed) : placed[j].file \in Rendered

\* a run with a failed row and a rendered row whose document was saved
C5_Witness ==
    /\ saved /\ NumFailed >= 1 /\ Cardinality(Rendered) >= 1
    /\ (tables # <<>> \/ placed # <<>>)

\* C6 as stated: with the progress bar in use, one progress signal per
\* completed and collected render task, whether it succeeded or failed.
C6_ProgressPerTask ==
    ~verbose => progress = Cardinality(collected)

\* C7 as stated: a run ended by a failure other than cancellation exits with a
\* non-zero status; a run ended by an interrupt exits with status 0.
C7_ExitStatus ==
    pc = "terminated" =>
        IF interruptedAt # "none" THEN exitStatus = 0
        ELSE (fault # "none" => exitStatus # 0)

\* C8: after an interrupt delivered during the fan-out, no layout step is ever
\* taken and nothing is saved from the results collected so far; the run only
\* waits for the pool, removes the temporary directory and ends, with an empty
\* output directory.
C8_InterruptMidRender ==
    interruptedAt = "collect" =>
        /\ pc \in {"shutdown", "cleanup", "terminated"}
        /\ all_temp_files = <<>> /\ tables = <<>> /\ placed = <<>>
        /\ ~saved /\ ~success
        /\ outDir = {}
        /\ (pc = "terminated" => exitStatus = 0)

\* interrupted with some results collected and other tasks not yet collected
C8_Witness ==
    /\ interruptedAt = "collect" /\ pc = "terminated"
    /\ results # <<>> /\ collected # Rows

LayoutFaults == {"docx_place", "docx_save", "pdf_init", "pdf_save"}
ErrorSurfaced == errors \cap {"layout", "pdf_failed"} # {}

\* C10 as stated: after an error during layout or serialization, a failure to
\* place a single image on either path included, nothing is saved, no success
\* is reported and an error is surfaced (runs without an interrupt).
C10_Original ==
    (interruptedAt = "none" /\ (fault \in LayoutFaults \/ drawFailed # {})) =>
        (~saved /\ ~success /\ (pc = "terminated" => ErrorSurfaced))

\* C10 amended: after a failure to place an image on the word-processor path,
\* a failure of generate_pdf outside the per-image draw, or a failed save, no
\* save completes, no success is reported and an error is surfaced; a failure
\* to draw a single image on the PDF path is skipped instead: if nothing else
\* fails the PDF is saved without that image and success is reported.
C10_LayoutErrorAbandons ==
    /\ fault \in LayoutFaults => (~saved /\ ~success /\ ErrorSurfaced)
    /\ (pc = "terminated" /\ drawFailed # {} /\ fault = "none" /\ interruptedAt = "none")
          => (saved /\ success /\ ~ErrorSurfaced
              /\ \A j \in 1..Len(placed) : placed[j].file \notin drawFailed)

\* a picture could not be placed in the second table of a docx run
C10_Witness ==
    /\ pc = "terminated" /\ fault = "docx_place" /\ Len(tables) = 2
    /\ ~saved /\ ~success /\ ErrorSurfaced

\* ---- pre-flight
PreflightFaults == {"bad_input", "no_xlsx", "bad_column", "no_data"}
NoRowRendered == tmpFiles = {} /\ \A r \in DOMAIN task : task[r] = "none"

\* C11: after a pre-flight failure (invalid or missing input file, no
\* spreadsheet found, column out of range, no data in the column) the run has
\* ended with the output directory holding exactly what it held at the start,
\* no temporary directory created, no row rendered and nothing saved.
C11_PreflightAbortsBeforeWork ==
    fault \in PreflightFaults =>
        /\ pc = "terminated"
        /\ outDir = previous /\ listing = <<>>
        /\ tmp = "none"
        /\ NoRowRendered
        /\ ~saved

\* a column without data, and an output directory holding a previous run's file
C11_Witness ==
    /\ fault = "no_data" /\ pc = "terminated"
    /\ Len(cells) >= 1 /\ previous # {} /\ outDir = previous

\* ---- clearing
\* C12: while the output directory is being cleared the entries it holds are
\* exactly those still to be deleted (none was skipped); after a failed
\* deletion the run waits at the prompt with that entry still first, and Enter
\* tries it again, any number of times; the temporary directory is not created
\* while an entry is left, so once it exists, or a row has been started, the
\* output directory holds nothing but the file this run saved; a cancellation
\* while clearing ends the process with status 0 and nothing rendered.
C12_ClearedBeforeRendering ==
    /\ pc \in {"clear", "prompt"} =>
         /\ outDir = Range(listing)
         /\ tmp = "none" /\ NoRowRendered
    /\ pc = "prompt" =>
         /\ listing # <<>> /\ Head(listing) \in outDir
         /\ ENABLED Retry
    /\ (pc = "clear" /\ listing # <<>>) => (ENABLED DeleteEntry /\ ~ENABLED TempDir)
    /\ (tmp # "none" \/ ~NoRowRendered) =>
         outDir = (IF saved THEN {output_file} ELSE {})
    /\ interruptedAt \in {"clear", "prompt"} =>
         /\ pc = "terminated" /\ exitStatus = 0
         /\ tmp = "none" /\ NoRowRendered /\ ~saved

\* a deletion has failed: the entry is still there and the run waits for Enter
C12_Witness ==
    /\ pc = "prompt" /\ previous # {}
    /\ outDir = previous /\ Head(listing) \in outDir
    /\ tmp = "none"

\* ---- ingestion
\* a cell that holds something: not None and not the empty string
NonEmpty(v) == v \notin {"None", ""}
DataRows == {row \in StartRow(has_header)..Len(cells) : NonEmpty(cells[row])}

\* C13 as stated: the collected list holds one pair (row - start row, value)
\* for exactly each non-empty cell at or below the start row, in ascending row
\* order, with pairwise distinct indices; nothing but null/empty cells is
\* dropped, so the run stops for want of data only when there is no such cell.
C13_Ingestion ==
    /\ pc = "clear" =>
         /\ Len(valid_rows) = Cardinality(DataRows)
         /\ \A row \in DataRows :
              \E j \in 1..Len(valid_rows) :
                  valid_rows[j] = <<row - StartRow(has_header), cells[row]>>
         /\ \A j \in 1..Len(valid_rows) :
              valid_rows[j][1] + StartRow(has_header) \in DataRows
         /\ \A j \in 1..(Len(valid_rows) - 1) : valid_rows[j][1] < valid_rows[j + 1][1]
    /\ fault = "no_data" => DataRows = {}

\* ---- PDF pages
InPdfLoop == type = "pdf" /\ pc \in {"pdf_loop", "pdf_save"}
LastPlaced == placed[Len(placed)]
\* the image placed after p would go below the bottom margin on p's page: p
\* ends its row, and the row under it has its lower edge under the margin
BelowBottom(p) == p.slot + 1 >= wide /\ p.y - QrHeight(wide) < Margin(wide)
AtPageStart(c) == c.x = Margin(wide) /\ c.y = TopY(wide)

\* C14 as stated: generate_pdf starts a new page exactly when the next image
\* would go below the bottom margin: of two images placed one after the other
\* the second is on the next page, at the top-left margin and first in its row,
\* if it would not fit under the first, and on the same page otherwise; no page
\* is started when no image remains (with no draw failure, the last page
\* started holds the last image); a page just started has the cursor at the
\* top-left margin and an empty current row.
C14_NewPageWhenNeeded ==
    InPdfLoop =>
        /\ \A j \in 1..(Len(placed) - 1) :
             IF BelowBottom(placed[j])
             THEN /\ placed[j + 1].page = placed[j].page + 1
                  /\ AtPageStart(placed[j + 1]) /\ placed[j + 1].slot = 0
             ELSE placed[j + 1].page = placed[j].page
        /\ (placed # <<>> /\ page_count # LastPlaced.page) =>
             (page_count = LastPlaced.page + 1 /\ AtPageStart(Cursor) /\ items_in_row = 0)
        /\ (placed # <<>> /\ drawFailed = {} /\ i > Len(all_temp_files)) =>
             page_count = LastPlaced.page

\* ---- PDF cells
\* the cell drawn at (cx, cy), qr_width by qr_height, lies within the margins
WithinMargins(cx, cy) ==
    /\ cx >= Margin(wide)
    /\ cx + QrWidth(wide) <= Width(wide) - Margin(wide)
    /\ cy >= Margin(wide)
    /\ cy + QrHeight(wide) <= Height(wide) - Margin(wide)

SlotInvariant(slot, cx, cy) ==
    /\ 0 <= slot /\ slot < wide
    /\ cx = Margin(wide) + slot * QrWidth(wide)
    /\ WithinMargins(cx, cy)

RowsPerPage == ((TopY(wide) - Margin(wide)) \div QrHeight(wide)) + 1

\* the n-th cell of the grid, n counted from 0, left to right, top to bottom,
\* page after page
GridCell(n) ==
    [slot |-> n % wide,
     x |-> Margin(wide) + (n % wide) * QrWidth(wide),
     y |-> TopY(wide) - ((n \div wide) % RowsPerPage) * QrHeight(wide),
     page |-> ((n \div wide) \div RowsPerPage) + 1]

AtGridCell(p, n) ==
    /\ p.slot = GridCell(n).slot /\ p.x = GridCell(n).x
    /\ p.y = GridCell(n).y /\ p.page = GridCell(n).page

\* C16: a drawImage that raises leaves x, y, items_in_row and page_count as
\* they were: the cursor is always at the grid cell numbered by the images
\* drawn so far, whatever number of draws failed in between, so the j-th image
\* drawn is in the j-th cell of the grid (no gap); the loop goes on over the
\* remaining images, and at its end every image was either drawn or failed.
C16_DrawFailureLeavesNoGap ==
    (type = "pdf" /\ pc \in {"pdf_loop", "pdf_save"}) =>
        /\ \A j \in 1..Len(placed) : AtGridCell(placed[j], j - 1)
        /\ AtGridCell([slot |-> items_in_row, x |-> x, y |-> y, page |-> page_count],
                      Len(placed))
        /\ i - 1 = Len(placed) + Cardinality(drawFailed)
        /\ \A f \in drawFailed : \A j \in 1..Len(placed) : placed[j].file # f
        /\ pc = "pdf_save" => i - 1 = Len(all_temp_files)

\* an image failed between two images that were drawn into adjacent cells of a row
C16_Witness ==
    /\ type = "pdf" /\ pc = "pdf_save" /\ wide >= 2
    /\ \E f \in drawFailed : \E j \in 1..(Len(placed) - 1) :
         /\ placed[j].file < f /\ f < placed[j + 1].file
         /\ placed[j].page = placed[j + 1].page /\ placed[j].y = placed[j + 1].y
         /\ placed[j + 1].x = placed[j].x + QrWidth(wide)

\* ---- image geometry
CellText(r) == valid_rows[CHOOSE j \in 1..Len(valid_rows) : valid_rows[j][1] = r][2]
ImageOf(r) == LabeledImage(CellText(r), RequestedSize(type)[1], RequestedSize(type)[2])

\* C17 as stated: every image written by generate_single_qr is 1000 by 1200
\* (height = 1.2 * width) whatever the text and the requested dimensions; the
\* caption band is the top 20% of the height, the QR region starts where the
\* band ends and spans the full width, and band and QR region fit the image:
\* caption height + QR height <= image height.
C17_ImageGeometry ==
    \A r \in tmpFiles :
        LET im == ImageOf(r) IN
        /\ im.width = 1000 /\ im.height = 1200
        /\ im.height * 10 = im.width * 12
        /\ im.caption.top = 0
        /\ (im.caption.bottom - im.caption.top) * 10 = im.height * 2
        /\ im.caption.bottom <= im.qr.top
        /\ im.qr.left = 0 /\ im.qr.right = im.width
        /\ (im.caption.bottom - im.caption.top) + (im.qr.bottom - im.qr.top) <= im.height

====
